---- MODULE Spec2Model ----
(***************************************************************************)
(* Van Gogh particle renderer: the frame loop (renderFrame and the effect  *)
(* that starts and cancels it), the particle population (updateParticles,  *)
(* spawnParticle), colour resolution (resolveColor) and the audio          *)
(* analyser (AudioHandler.setup / getAnalysis).                            *)
(*                                                                         *)
(* Four specifications share the variables below; each one moves the part  *)
(* of the state its operations touch and leaves the rest alone:            *)
(*   SpecLoop      renderFrame, the scheduling effect, settings changes,   *)
(*                 with the population reduced to its length (so that the  *)
(*                 500-per-frame spawn cap is exercised);                  *)
(*   SpecParticles updateParticles on a small population of full          *)
(*                 particle records;                                       *)
(*   SpecAudio     AudioHandler.setup and getAnalysis;                     *)
(*   SpecColor     resolveColor as a function of its inputs.               *)
(*                                                                         *)
(* Numbers.  JavaScript numbers are modelled by exact integers in fixed    *)
(* units: ages and lifespans in halves of a frame, positions and           *)
(* velocities in fifths of a canvas unit, particleCount in halves,         *)
(* opacity and band means as fractions <<numerator, denominator>>.         *)
(***************************************************************************)
EXTENDS Integers, Sequences, FiniteSets, TLC

VARIABLES
  \* ---- frame loop (VanGoghRenderer.tsx 306-363)
  mounted,        \* the component is mounted (the effect has not been torn down for good)
  requestRef,     \* requestRef.current: id of the last animation frame requested
  pending,        \* ids of the animation-frame callbacks the browser still holds
  nextId,         \* the id the browser hands out at the next requestAnimationFrame
  videoReady,     \* video.readyState === 4
  particleCount,  \* settings.particleCount of the latest props, in halves
  closureCount,   \* settings.particleCount captured by the installed renderFrame, in halves
  effectDue,      \* a render committed new settings and the effect has not re-run yet
  outcome,        \* how the last execution of renderFrame ended
  frames,         \* number of executions of renderFrame so far
  changes,        \* number of settings changes so far
  popLen,         \* particlesRef.current.length
  \* ---- particle population (VanGoghRenderer.tsx 72-86, 148-304)
  particles,      \* particlesRef.current (SpecParticles keeps every record)
  cfg,            \* the settings snapshot updateParticles reads
  canvas,         \* canvas.width, canvas.height of the last frame
  trace,          \* per slot, what the last updateParticles did with the particle
  \* ---- audio (AudioHandler)
  audio,          \* the handler's fields
  calls,          \* the position of each setup call
  analysis,       \* the value the last getAnalysis returned
  \* ---- colour
  colorIn,        \* the arguments and settings of a resolveColor call
  colorOut        \* its result

loopVars     == <<mounted, requestRef, pending, nextId, videoReady, particleCount,
                  closureCount, effectDue, outcome, frames, changes>>
particleVars == <<particles, cfg, canvas, trace>>
audioVars    == <<audio, calls, analysis>>
colorVars    == <<colorIn, colorOut>>
vars == <<loopVars, popLen, particleVars, audioVars, colorVars>>

Min(a, b) == IF a < b THEN a ELSE b
Max(a, b) == IF a > b THEN a ELSE b
Abs(a) == IF a < 0 THEN -a ELSE a

(***************************************************************************)
(* Bounds of the model.                                                    *)
(***************************************************************************)
MaxFrames  == 4   \* executions of renderFrame explored in SpecLoop
MaxChanges == 2   \* settings changes explored in SpecLoop
MaxSteps   == 4   \* calls of updateParticles explored in SpecParticles
MaxCalls   == 3   \* calls of AudioHandler.setup explored in SpecAudio

(***************************************************************************)
(* Population size (updateParticles, "Manage particle count").             *)
(***************************************************************************)
SpawnCap == 500

\* Math.floor(settings.particleCount), the count given in halves
TargetCount(pc) == pc \div 2

SpawnRateNoCap(currentCount, targetCount) == targetCount - currentCount

\* const spawnRate = Math.min(500, targetCount - currentCount)
SpawnRate(currentCount, targetCount) == Min(SpawnCap, targetCount - currentCount)

\* the length of particlesRef.current after the spawn loop or the splice
Reconcile(currentCount, targetCount) ==
  IF currentCount < targetCount
    THEN currentCount + SpawnRate(currentCount, targetCount)
    ELSE IF currentCount > targetCount
      THEN targetCount          \* splice(targetCount), targetCount >= 0
      ELSE currentCount

\* settings.particleCount values a settings change may install, in halves:
\* 0, 1.5, 500 and 1001.5
ParticleCounts == {0, 3, 1000, 2003}

(***************************************************************************)
(* Placeholders for the parts a specification does not move.               *)
(***************************************************************************)
NoParticles == << >>
NoCfg       == [particleCount |-> 0, brightnessThreshold |-> 0, strokeLength |-> 0,
                alpha |-> 0]
NoCanvas    == [width |-> 0, height |-> 0]
\* the handler as constructed: every field null (0, or the empty array), no
\* AudioContext and no Audio element created yet
NoAudio     == [audioContext |-> 0, analyser |-> 0, dataArray |-> << >>,
                audioElement |-> 0, contexts |-> << >>, elements |-> << >>]
\* no getAnalysis call made yet
NoAnalysis  == [called |-> FALSE, error |-> FALSE, spectrum |-> << >>,
                bass |-> <<0, 1>>, mid |-> <<0, 1>>, treble |-> <<0, 1>>,
                average |-> <<0, 1>>]
\* no resolveColor call made / no result yet
NoInput     == [r |-> 0, g |-> 0, b |-> 0, mode |-> "none", saturation |-> 0,
                noise |-> 0]
NoColor     == [r |-> -1, g |-> -1, b |-> -1]

IdleParticles == particles = NoParticles /\ cfg = NoCfg /\ canvas = NoCanvas
                 /\ trace = << >>
IdleAudio     == audio = NoAudio /\ calls = << >> /\ analysis = NoAnalysis
IdleColor     == colorIn = NoInput /\ colorOut = NoColor
IdleLoop      == /\ mounted = TRUE /\ requestRef = 0 /\ pending = {} /\ nextId = 1
                 /\ videoReady = TRUE /\ particleCount = 0 /\ closureCount = 0
                 /\ effectDue = FALSE /\ outcome = "none" /\ frames = 0
                 /\ changes = 0

(***************************************************************************)
(* The frame loop.                                                         *)
(***************************************************************************)
CancelNothing(queue, id) == queue

CancelMountRequest(queue, id) == queue \ {1}

\* cancelAnimationFrame(id): the browser drops the callback, if it holds it
CancelAnimationFrame(queue, id) == queue \ {id}

\* mount: useEffect(() => { requestRef.current = requestAnimationFrame(renderFrame) ... })
InitLoop ==
  /\ mounted = TRUE
  /\ requestRef = 1
  /\ pending = {1}
  /\ nextId = 2
  /\ videoReady \in BOOLEAN
  /\ particleCount \in ParticleCounts
  /\ closureCount = particleCount
  /\ effectDue = FALSE
  /\ outcome = "none"
  /\ frames = 0
  /\ changes = 0
  /\ popLen = 0

\* renderFrame, lines 310-313: the video is not ready; ask for the next frame
RenderNotReady(id) ==
  /\ id \in pending /\ frames < MaxFrames
  /\ ~videoReady
  /\ requestRef' = nextId
  /\ pending' = (pending \ {id}) \cup {nextId}
  /\ nextId' = nextId + 1
  /\ outcome' = "notReady"
  /\ frames' = frames + 1
  /\ UNCHANGED <<mounted, videoReady, particleCount, closureCount, effectDue,
                 changes, popLen>>
  /\ UNCHANGED <<particleVars, audioVars, colorVars>>

\* renderFrame, lines 320-325 and 339-340: getContext('2d') returned null;
\* the function returns without requesting another frame
RenderNoContext(id) ==
  /\ id \in pending /\ frames < MaxFrames
  /\ videoReady
  /\ pending' = pending \ {id}
  /\ outcome' = "noContext"
  /\ frames' = frames + 1
  /\ UNCHANGED <<mounted, requestRef, nextId, videoReady, particleCount,
                 closureCount, effectDue, changes, popLen>>
  /\ UNCHANGED <<particleVars, audioVars, colorVars>>

\* renderFrame, lines 327-357: the frame is processed (updateParticles brings
\* the population towards the target the closure captured) and the next
\* frame is requested
RenderProcessed(id) ==
  /\ id \in pending /\ frames < MaxFrames
  /\ videoReady
  /\ popLen' = Reconcile(popLen, TargetCount(closureCount))
  /\ requestRef' = nextId
  /\ pending' = (pending \ {id}) \cup {nextId}
  /\ nextId' = nextId + 1
  /\ outcome' = "processed"
  /\ frames' = frames + 1
  /\ UNCHANGED <<mounted, videoReady, particleCount, closureCount, effectDue,
                 changes>>
  /\ UNCHANGED <<particleVars, audioVars, colorVars>>

\* the browser runs the pending animation-frame callback; one action per way
\* renderFrame can end
RenderFrameNotReady  == \E id \in pending : RenderNotReady(id)
RenderFrameNoContext == \E id \in pending : RenderNoContext(id)
RenderFrameProcessed == \E id \in pending : RenderProcessed(id)

\* Controls: setSettings; App re-renders and the renderer gets new props.
\* renderFrame is re-created (its useCallback depends on settings) and the
\* effect is due to run again.
SetSettings ==
  /\ mounted /\ changes < MaxChanges
  /\ \E pc \in ParticleCounts : particleCount' = pc
  /\ effectDue' = TRUE
  /\ changes' = changes + 1
  /\ UNCHANGED <<mounted, requestRef, pending, nextId, videoReady, closureCount,
                 outcome, frames, popLen>>
  /\ UNCHANGED <<particleVars, audioVars, colorVars>>

\* the effect re-runs, lines 360-363: the cleanup of the previous run cancels
\* requestRef.current, then the new renderFrame is requested
RunEffect ==
  /\ mounted /\ effectDue
  /\ requestRef' = nextId
  /\ pending' = CancelAnimationFrame(pending, requestRef) \cup {nextId}
  /\ nextId' = nextId + 1
  /\ closureCount' = particleCount
  /\ effectDue' = FALSE
  /\ UNCHANGED <<mounted, videoReady, particleCount, outcome, frames, changes,
                 popLen>>
  /\ UNCHANGED <<particleVars, audioVars, colorVars>>

\* unmount: the cleanup runs, line 362, and nothing is requested again
Unmount ==
  /\ mounted
  /\ mounted' = FALSE
  /\ pending' = CancelAnimationFrame(pending, requestRef)
  /\ effectDue' = FALSE
  /\ UNCHANGED <<requestRef, nextId, videoReady, particleCount, closureCount,
                 outcome, frames, changes, popLen>>
  /\ UNCHANGED <<particleVars, audioVars, colorVars>>

\* the video element starts or stops having a frame to read
VideoChange ==
  /\ mounted
  /\ videoReady' = ~videoReady
  /\ UNCHANGED <<mounted, requestRef, pending, nextId, particleCount,
                 closureCount, effectDue, outcome, frames, changes, popLen>>
  /\ UNCHANGED <<particleVars, audioVars, colorVars>>

NextLoop ==
  \/ RenderFrameNotReady
  \/ RenderFrameNoContext
  \/ RenderFrameProcessed
  \/ SetSettings
  \/ RunEffect
  \/ Unmount
  \/ VideoChange

StartLoop == InitLoop /\ IdleParticles /\ IdleAudio /\ IdleColor

SpecLoop == StartLoop /\ [][NextLoop]_vars

(***************************************************************************)
(* Claims about the frame loop and the population size (SpecLoop).         *)
(***************************************************************************)
\* a step that is one execution of renderFrame
IsRenderFrame == frames' = frames + 1
\* a step in which updateParticles ran
IsUpdate == IsRenderFrame /\ outcome' = "processed"

\* floor of a count given in halves, stated without TargetCount
FloorOfHalves(h) == CHOOSE t \in 0..h : 2 * t <= h /\ h < 2 * (t + 1)

\* frames still needed to bring a population of n to the target T
FramesLeft(n, T) ==
  IF n < T THEN (T - n + 499) \div 500 ELSE IF n > T THEN 1 ELSE 0

\* C1: in every frame, a population below the target T = floor(particleCount)
\* grows by exactly min(500, T - n), one above it shrinks to exactly T, one
\* equal to it is unchanged; so |n - T| never increases, n never overshoots
\* T, and the number of frames still needed strictly decreases until n = T.
C1_PopulationConverges ==
  [][IsUpdate =>
      LET T == FloorOfHalves(closureCount)
          n == popLen
          m == popLen'
      IN /\ (n < T => m = n + (IF T - n < 500 THEN T - n ELSE 500))
         /\ (n > T => m = T)
         /\ (n = T => m = n)
         /\ Abs(m - T) <= Abs(n - T)
         /\ (n <= T => m <= T) /\ (n >= T => m >= T)
         /\ (n # T => FramesLeft(m, T) < FramesLeft(n, T))]_vars

\* C1 witness: a frame grew the population by the full batch of 500 although
\* 501 were missing, and the target is one frame away
C1_Witness ==
  /\ outcome = "processed" /\ popLen = 1000 /\ TargetCount(closureCount) = 1001
  /\ frames >= 2

\* C9 (as stated): every execution of renderFrame ends with exactly one next
\* iteration requested: the callback that ran is gone and one new request,
\* the one stored in requestRef, is pending.
C9_EveryFrameRequestsNext ==
  [][IsRenderFrame =>
      /\ requestRef' = nextId /\ nextId' = nextId + 1
      /\ pending' = {requestRef'}]_vars

\* C10: once the loop is stopped (unmount ran the effect's cleanup) no
\* animation-frame callback is pending, renderFrame never executes again and
\* nothing is requested again.
C10_StopCeasesScheduling ==
  [][~mounted' =>
      /\ pending' = {}
      /\ (~mounted => frames' = frames /\ nextId' = nextId /\ outcome' = outcome)]_vars

\* C10 witness: the loop was stopped right after a processed frame had
\* requested the next one, and after a settings change re-ran the effect
C10_Witness ==
  ~mounted /\ outcome = "processed" /\ frames >= 2 /\ changes >= 1 /\ pending = {}

\* C16: at every moment, whatever the interleaving of frame callbacks,
\* settings changes and effect re-runs, at most one animation-frame callback
\* is pending (so at most one render loop is alive).
C16_AtMostOnePending == Cardinality(pending) <= 1

\* C16 witness: two settings changes were made, the effect re-ran after
\* them, frames were processed, and exactly one callback is pending
C16_Witness ==
  /\ mounted /\ changes = 2 /\ ~effectDue /\ frames >= 2
  /\ outcome = "processed" /\ pending = {requestRef}

(***************************************************************************)
(* Particles.  Positions and velocities are in hundredths of a canvas      *)
(* unit, ages and lifespans in halves of a frame, Math.random() results in *)
(* ten-thousandths.  A product that leaves the grid of its unit is rounded *)
(* to the nearest point of it.                                             *)
(***************************************************************************)
SIM_WIDTH  == 320
SIM_HEIGHT == 180

\* n / d rounded to the nearest integer, d > 0
Round(n, d) == (2 * n + d) \div (2 * d)

\* the Math.random() results explored, per use, in ten-thousandths
DrawsX    == {0, 9999}
DrawsY    == {0, 5000}
DrawsVx   == {0, 9950}
DrawsVy   == {5000}
DrawsLife == {0, 4000}
DrawsAge  == {5000, 8000}
Draws == [x : DrawsX, y : DrawsY, vx : DrawsVx, vy : DrawsVy,
          life : DrawsLife, age : DrawsAge]
\* a respawn reads x, y and life only: the other draws are made and dropped
RespawnDraws == {d \in Draws : d.vx = 0 /\ d.vy = 5000 /\ d.age = 5000}

LifeBaseRaw(c) == c.strokeLength

\* const lifeBase = Math.max(5, settings.strokeLength)
LifeBase(c) == Max(5, c.strokeLength)

\* spawnParticle(w, h) with the given Math.random() results
spawnParticle(w, h, c, d) ==
  [x       |-> (d.x * w) \div 100,                    \* Math.random() * w
   y       |-> (d.y * h) \div 100,                    \* Math.random() * h
   vx      |-> (2 * d.vx - 10000) \div 100,           \* (Math.random() - 0.5) * 2
   vy      |-> (2 * d.vy - 10000) \div 100,
   life    |-> (LifeBase(c) * (16000 + d.life)) \div 10000,  \* lifeBase * (0.8 + random * 0.5)
   maxLife |-> LifeBase(c) * 3,                       \* lifeBase * 1.5
   age     |-> d.age \div 1000,                       \* Math.random() * 5
   lastX   |-> 0,
   lastY   |-> 0]

\* the frames the analysis canvas may hold: every pixel black, every pixel
\* white, or black and white rows in turn
Images == {"dark", "bright", "rows"}

\* pixelData[idx] for idx the first byte of a cell; the three colour bytes of
\* a cell are equal in these frames
Pixel(img, idx) ==
  LET cell == idx \div 4
      gy   == cell \div SIM_WIDTH
  IN CASE img = "dark"   -> 0
       [] img = "bright" -> 255
       [] OTHER          -> IF gy % 2 = 0 THEN 0 ELSE 255

\* r + g + b of the cell at idx; brightness is this sum / 765
Sum3(img, idx) == Pixel(img, idx) + Pixel(img, idx + 1) + Pixel(img, idx + 2)

\* p.x < -50 || p.x > width + 50 || p.y < -50 || p.y > height + 50
OutsideMargin(p, w, h) ==
  \/ p.x < -5000 \/ p.x > 100 * w + 5000
  \/ p.y < -5000 \/ p.y > 100 * h + 5000

AgeReached(age, life) == age >= life

\* p.age > p.life
AgeExceeds(age, life) == age > life

\* Math.floor(p.x * scaleX), scaleX = SIM_WIDTH / width
SimX(p, w) == (p.x * SIM_WIDTH) \div (100 * w)
SimY(p, h) == (p.y * SIM_HEIGHT) \div (100 * h)

OutOfGridLow(simX, simY) == simX < 0 \/ simY < 0

OutOfGridHigh(simX, simY) == simX >= SIM_WIDTH \/ simY >= SIM_HEIGHT

\* simX < 0 || simX >= SIM_WIDTH || simY < 0 || simY >= SIM_HEIGHT
OutOfGrid(simX, simY) ==
  simX < 0 \/ simX >= SIM_WIDTH \/ simY < 0 \/ simY >= SIM_HEIGHT

\* the respawn assignments: p.x, p.y, p.life from a fresh particle, p.age = 0,
\* p.lastX = p.x, p.lastY = p.y; vx, vy and maxLife are not assigned
Respawn(p, newP) ==
  [p EXCEPT !.x = newP.x, !.y = newP.y, !.life = newP.life, !.age = 0,
            !.lastX = newP.x, !.lastY = newP.y]

\* brightness * 100 < settings.brightnessThreshold, brightness = sum / 765
BelowThreshold(sum, c) == sum * 100 < c.brightnessThreshold * 765

AgeAfterStepNoTick(age, below) == IF below THEN age + 2 ELSE age

AgeAfterStepNoPenalty(age, below) == age + 2

\* the age after a step that does not respawn: p.age += 1 under the
\* threshold, and p.age++ at the end
AgeAfterStep(age, below) == (IF below THEN age + 2 ELSE age) + 2

\* 100 * cos(angle) and 100 * sin(angle) for angle = atan2(dy, dx) + PI / 2,
\* where dx, dy are the brightness differences to the right and downwards
\* (as sums of three bytes) and the turbulence term is 0 (noiseStrength = 0).
\* In the frames above each difference is 0 or +-765.
Sign(v) == IF v > 0 THEN 1 ELSE IF v < 0 THEN -1 ELSE 0
FlowCos(dx, dy) ==
  IF dx = 0 /\ dy = 0 THEN 0
  ELSE IF dx # 0 /\ dy # 0 THEN -71 * Sign(dy) ELSE -100 * Sign(dy)
FlowSin(dx, dy) ==
  IF dx = 0 /\ dy = 0 THEN 100
  ELSE IF dx # 0 /\ dy # 0 THEN 71 * Sign(dx) ELSE 100 * Sign(dx)

\* settings.alpha * (lifeProgress < 0.2 ? lifeProgress * 5 : 1)
\*                * (1 - Math.pow(lifeProgress, 4)), lifeProgress = age / life,
\* as a fraction <<numerator, denominator>> with a positive denominator;
\* settings.alpha is given in hundredths
Opacity(age, life, c) ==
  LET l4 == life * life * life * life
      a4 == age * age * age * age
  IN <<c.alpha * (IF 5 * age < life THEN 5 * age ELSE life) * (l4 - a4),
       100 * life * l4>>

\* one call of the forEach callback on particle p: the particle afterwards
\* and a record of what was done.  newP is the particle spawnParticle
\* returns if the callback asks for one.
StepParticle(p, newP, img, w, h, c) ==
  LET simX == SimX(p, w)
      simY == SimY(p, h)
  IN
  IF AgeExceeds(p.age, p.life) \/ OutsideMargin(p, w, h)
    THEN [p |-> Respawn(p, newP),
          t |-> [before |-> p, respawned |-> TRUE, branch |-> 1, reads |-> {},
                 drawn |-> FALSE, opacity |-> <<0, 1>>, alpha |-> c.alpha,
                 below |-> FALSE, fresh |-> newP, sum |-> 0]]
  ELSE IF OutOfGrid(simX, simY)
    THEN [p |-> Respawn(p, newP),
          t |-> [before |-> p, respawned |-> TRUE, branch |-> 2, reads |-> {},
                 drawn |-> FALSE, opacity |-> <<0, 1>>, alpha |-> c.alpha,
                 below |-> FALSE, fresh |-> newP, sum |-> 0]]
  ELSE
    LET idx      == (simY * SIM_WIDTH + simX) * 4
        sum      == Sum3(img, idx)
        below    == BelowThreshold(sum, c)
        age1     == IF below THEN p.age + 2 ELSE p.age    \* p.age += 1
        idxRight == (Min(simY, SIM_HEIGHT - 1) * SIM_WIDTH
                     + Min(simX + 1, SIM_WIDTH - 1)) * 4
        idxDown  == (Min(simY + 1, SIM_HEIGHT - 1) * SIM_WIDTH
                     + Min(simX, SIM_WIDTH - 1)) * 4
        dx       == Sum3(img, idxRight) - sum
        dy       == Sum3(img, idxDown) - sum
        \* p.vx += Math.cos(angle) * 0.2; p.vx *= 0.85
        vx       == Round((p.vx * 100 + 20 * FlowCos(dx, dy)) * 85, 10000)
        vy       == Round((p.vy * 100 + 20 * FlowSin(dx, dy)) * 85, 10000)
        \* currentSpeed = speedBase * (0.5 + brightness * 0.5), speedBase = 2
        \* (no treble: the audio analysis is all zero)
        x        == p.x + Round(vx * (765 + sum), 765)
        y        == p.y + Round(vy * (765 + sum), 765)
        ddx      == x - p.lastX
        ddy      == y - p.lastY
        \* dist > 2 || p.age === 0
        draw     == ddx * ddx + ddy * ddy > 40000 \/ age1 = 0
    IN [p |-> [p EXCEPT !.x = x, !.y = y, !.vx = vx, !.vy = vy,
                        !.age = AgeAfterStep(p.age, below),
                        !.lastX = IF draw THEN x ELSE p.lastX,
                        !.lastY = IF draw THEN y ELSE p.lastY],
        t |-> [before |-> p, respawned |-> FALSE, branch |-> 0,
               reads |-> {i + k : i \in {idx, idxRight, idxDown}, k \in 0..2},
               drawn |-> draw, opacity |-> Opacity(age1, p.life, c),
               alpha |-> c.alpha,
               below |-> below, fresh |-> p, sum |-> sum]]

\* the settings snapshots explored: particleCount in halves (no particle or
\* one: the forEach callback reads and writes its own particle only),
\* brightnessThreshold on the 0-100 scale, strokeLength under and over the
\* floor of 5 that spawnParticle applies, alpha in hundredths
Settings ==
  [particleCount : {0, 2}, brightnessThreshold : {10},
   strokeLength : {-4, 10}, alpha : {90}]

\* canvas.width, canvas.height: the size of the video frame
CanvasSizes == {[width |-> 320, height |-> 180], [width |-> 160, height |-> 90]}

InitParticles ==
  /\ particles = << >>
  /\ popLen = 0
  /\ cfg \in Settings
  /\ canvas \in CanvasSizes
  /\ trace = << >>

\* the particles the spawn loop pushes: p = spawnParticle(width, height);
\* p.lastX = p.x; p.lastY = p.y
Pushed(k, w, h, c, ds) ==
  [i \in 1..k |->
     LET q == spawnParticle(w, h, c, ds[i])
     IN [q EXCEPT !.lastX = q.x, !.lastY = q.y]]

\* the Math.random() results of the spawnParticle calls the forEach makes,
\* one per slot; a slot that is not respawned makes no call (its entry is
\* not read)
RECURSIVE RespawnChoices(_, _, _)
RespawnChoices(pop, w, h) ==
  IF pop = << >> THEN {<< >>}
  ELSE LET k == Len(pop)
           p == pop[k]
           calls1 == IF \/ AgeExceeds(p.age, p.life) \/ OutsideMargin(p, w, h)
                        \/ OutOfGrid(SimX(p, w), SimY(p, h))
                     THEN RespawnDraws
                     ELSE {CHOOSE d \in RespawnDraws : TRUE}
       IN {Append(s, d) : s \in RespawnChoices(SubSeq(pop, 1, k - 1), w, h),
                          d \in calls1}

\* updateParticles(ctx, width, height, analysisCtx, audioData): the canvas
\* has size sz, the analysis canvas holds img
UpdateParticles(sz, img) ==
  LET w == sz.width
      h == sz.height
      target == TargetCount(cfg.particleCount)
      n == Len(particles)
      m == Reconcile(n, target)
  IN
  /\ frames < MaxSteps
  /\ \E ds \in [1..(IF m > n THEN m - n ELSE 0) -> Draws] :
       LET pop == IF m > n THEN particles \o Pushed(m - n, w, h, cfg, ds)
                  ELSE SubSeq(particles, 1, m)          \* splice(targetCount)
       IN \E rs \in RespawnChoices(pop, w, h) :
            LET res == [i \in 1..m |->
                          StepParticle(pop[i], spawnParticle(w, h, cfg, rs[i]),
                                       img, w, h, cfg)]
            IN /\ particles' = [i \in 1..m |-> res[i].p]
               /\ trace' = [i \in 1..m |-> res[i].t]
               /\ popLen' = m
  /\ canvas' = sz
  /\ frames' = frames + 1
  /\ UNCHANGED cfg
  /\ UNCHANGED <<mounted, requestRef, pending, nextId, videoReady, particleCount,
                 closureCount, effectDue, outcome, changes>>
  /\ UNCHANGED <<audioVars, colorVars>>

Frame == \E sz \in CanvasSizes, img \in Images : UpdateParticles(sz, img)

\* a settings change between two frames
ChangeSettings ==
  /\ \E c \in Settings : c # cfg /\ cfg' = c
  /\ UNCHANGED <<particles, canvas, trace, popLen, loopVars, audioVars, colorVars>>

NextParticles ==
  \/ Frame
  \/ ChangeSettings

StartParticles == InitParticles /\ IdleLoop /\ IdleAudio /\ IdleColor

SpecParticles == StartParticles /\ [][NextParticles]_vars

(***************************************************************************)
(* AudioHandler.  An object reference is the number of the object (0 is    *)
(* null); audio.contexts and audio.elements hold the state of every        *)
(* AudioContext and Audio element created so far.  A number the code       *)
(* returns as a quotient is the pair <<dividend, divisor>>.                *)
(***************************************************************************)
FftSize == 1024

\* analyser.frequencyBinCount: half the FFT size
BinCount == FftSize \div 2

\* new Uint8Array(n): n zero bytes
Zeros(n) == [i \in 1..n |-> 0]

\* what getByteFrequencyData may write: silence, or a floor of `base` with
\* one bin at 255; the peaks sit on both sides of the band borders
Peaks == {0, 24, 25, 26, 127, 128, 511}
Spectra ==
  {Zeros(BinCount)} \cup
  {[i \in 1..BinCount |-> IF i = k + 1 THEN 255 ELSE base] :
     k \in Peaks, base \in {0, 7}}

MidRangeFifth(binCount) == (binCount * 20) \div 100

\* Math.floor(binCount * 0.05), Math.floor(binCount * 0.25)
BassRange(binCount) == (binCount * 5) \div 100
MidRange(binCount)  == (binCount * 25) \div 100

\* what the loop body of getAnalysis adds for bin i:
\* <<to bassSum, to midSum, to trebleSum>>
BinTerm(data, i) ==
  IF i < BassRange(Len(data)) THEN <<data[i + 1], 0, 0>>
  ELSE IF i < MidRange(Len(data)) THEN <<0, data[i + 1], 0>>
  ELSE <<0, 0, data[i + 1]>>

\* the sums <<bassSum, midSum, trebleSum>> the loop of getAnalysis
\* accumulates over the bins lo <= i < hi (summed by halves of the range)
RECURSIVE BandLoop(_, _, _)
BandLoop(data, lo, hi) ==
  IF hi <= lo THEN <<0, 0, 0>>
  ELSE IF hi = lo + 1 THEN BinTerm(data, lo)
  ELSE LET half == (lo + hi) \div 2
           a == BandLoop(data, lo, half)
           b == BandLoop(data, half, hi)
       IN <<a[1] + b[1], a[2] + b[2], a[3] + b[3]>>

GuardMissing(a) == FALSE

\* !this.analyser || !this.dataArray
NotLoaded(a) == a.analyser = 0 \/ a.dataArray = << >>

ZeroAnalysis == [NoAnalysis EXCEPT !.called = TRUE]

\* the AudioData getAnalysis returns once data holds the spectrum
Bands(data) ==
  LET binCount  == Len(data)
      bassRange == BassRange(binCount)
      midRange  == MidRange(binCount)
      sums      == BandLoop(data, 0, binCount)
  IN [called |-> TRUE, error |-> FALSE, spectrum |-> data,
      bass    |-> <<sums[1], bassRange>>,
      mid     |-> <<sums[2], midRange - bassRange>>,
      treble  |-> <<sums[3], binCount - midRange>>,
      average |-> <<sums[1] + sums[2] + sums[3], binCount>>]

\* Bands on each spectrum explored (evaluated once)
BandsOf == [data \in Spectra |-> Bands(data)]

\* getAnalysis()
GetAnalysis ==
  /\ IF NotLoaded(audio)
       THEN analysis' = ZeroAnalysis /\ UNCHANGED audio
     ELSE IF audio.analyser = 0
       \* this.analyser.getByteFrequencyData on null: a TypeError
       THEN analysis' = [ZeroAnalysis EXCEPT !.error = TRUE] /\ UNCHANGED audio
     ELSE \E data \in Spectra :
            /\ audio' = [audio EXCEPT !.dataArray = data]
            /\ analysis' = BandsOf[data]
  /\ UNCHANGED <<calls, loopVars, popLen, particleVars, colorVars>>

\* setup, lines 19-37, run without interruption: a new context with its
\* analyser and data array, the previous element paused, a new element
\* whose play() is awaited
CreateAndPlay(c) ==
  LET ctx == Len(audio.contexts) + 1
      el  == Len(audio.elements) + 1
      old == audio.audioElement
      paused == IF old = 0 THEN audio.elements
                ELSE [audio.elements EXCEPT ![old] = "paused"]
  IN /\ audio' = [audio EXCEPT
                    !.audioContext = ctx,
                    !.analyser = ctx,
                    !.dataArray = Zeros(BinCount),
                    !.audioElement = el,
                    !.contexts = Append(@, "running"),
                    !.elements = Append(paused, "starting")]
     /\ calls' = [calls EXCEPT ![c] = [pc |-> "playing", ctx |-> 0, el |-> el]]

\* new AudioContext() throws (the browser refuses another context): setup
\* rejects with the handler as it was
CreateFails(c) ==
  /\ calls' = [calls EXCEPT ![c] = [pc |-> "failed", ctx |-> 0, el |-> 0]]
  /\ UNCHANGED audio

\* handleFileUpload calls setup(file); lines 15-17: a context already there
\* is closed first, and the call waits for that.  close() on a context that
\* an earlier call is closing, or has closed, returns a promise that the
\* browser either rejects (the await throws and setup ends there) or
\* resolves along with the first close.
SetupBegin(c) ==
  /\ calls[c].pc = "idle"
  /\ IF audio.audioContext # 0
       THEN LET k == audio.audioContext
                waiting == [calls EXCEPT ![c] = [pc |-> "closing", ctx |-> k,
                                                 el |-> 0]]
            IN IF audio.contexts[k] = "running"
                 THEN /\ calls' = waiting
                      /\ audio' = [audio EXCEPT !.contexts[k] = "closing"]
                 ELSE /\ \/ calls' = waiting
                         \/ calls' = [calls EXCEPT ![c] = [pc |-> "failed",
                                                           ctx |-> 0, el |-> 0]]
                      /\ UNCHANGED audio
       ELSE CreateAndPlay(c) \/ CreateFails(c)
  /\ UNCHANGED <<analysis, loopVars, popLen, particleVars, colorVars>>

\* await this.audioContext.close() returns: the context is closed and setup
\* goes on
CloseDone(c) ==
  /\ calls[c].pc = "closing"
  /\ LET closed == [audio EXCEPT !.contexts[calls[c].ctx] = "closed"]
         ctx == Len(audio.contexts) + 1
         el  == Len(audio.elements) + 1
         old == audio.audioElement
         paused == IF old = 0 THEN audio.elements
                   ELSE [audio.elements EXCEPT ![old] = "paused"]
     IN \/ /\ audio' = [closed EXCEPT
                          !.audioContext = ctx,
                          !.analyser = ctx,
                          !.dataArray = Zeros(BinCount),
                          !.audioElement = el,
                          !.contexts = Append(@, "running"),
                          !.elements = Append(paused, "starting")]
           /\ calls' = [calls EXCEPT ![c] = [pc |-> "playing", ctx |-> 0, el |-> el]]
        \/ /\ audio' = closed
           /\ calls' = [calls EXCEPT ![c] = [pc |-> "failed", ctx |-> 0, el |-> 0]]
  /\ UNCHANGED <<analysis, loopVars, popLen, particleVars, colorVars>>

\* await this.audioElement.play() returns: the element plays, or the promise
\* was rejected because the element was paused meanwhile
PlayDone(c) ==
  /\ calls[c].pc = "playing"
  /\ LET el == calls[c].el
     IN IF audio.elements[el] = "starting"
          THEN /\ audio' = [audio EXCEPT !.elements[el] = "playing"]
               /\ calls' = [calls EXCEPT ![c].pc = "done"]
          ELSE /\ calls' = [calls EXCEPT ![c].pc = "failed"]
               /\ UNCHANGED audio
  /\ UNCHANGED <<analysis, loopVars, popLen, particleVars, colorVars>>

Setup     == \E c \in DOMAIN calls : SetupBegin(c)
Closed    == \E c \in DOMAIN calls : CloseDone(c)
Played    == \E c \in DOMAIN calls : PlayDone(c)

InitAudio ==
  /\ audio = NoAudio
  /\ calls = [c \in 1..MaxCalls |-> [pc |-> "idle", ctx |-> 0, el |-> 0]]
  /\ analysis = NoAnalysis
  /\ popLen = 0

NextAudio ==
  \/ Setup
  \/ Closed
  \/ Played
  \/ GetAnalysis

StartAudio == InitAudio /\ IdleLoop /\ IdleParticles /\ IdleColor

SpecAudio == StartAudio /\ [][NextAudio]_vars

(***************************************************************************)
(* resolveColor.  Input channels are bytes; settings.colorSaturation is in *)
(* tenths; luminance is in thousandths; the channels returned are in       *)
(* ten-thousandths.  In the palette modes the saturated channels are taken *)
(* whole: the inputs explored there are those on which they are whole      *)
(* numbers, so that the distances are exact.                               *)
(***************************************************************************)
PALETTES ==
  [sunflowers |->
     << [r |-> 255, g |-> 220, b |-> 50],  [r |-> 210, g |-> 160, b |-> 40],
        [r |-> 160, g |-> 190, b |-> 140], [r |-> 90,  g |-> 120, b |-> 80],
        [r |-> 250, g |-> 245, b |-> 220], [r |-> 140, g |-> 70,  b |-> 20] >>,
   self_portrait |->
     << [r |-> 180, g |-> 70,  b |-> 50],  [r |-> 70,  g |-> 90,  b |-> 60],
        [r |-> 40,  g |-> 60,  b |-> 80],  [r |-> 220, g |-> 190, b |-> 160],
        [r |-> 60,  g |-> 90,  b |-> 180], [r |-> 200, g |-> 100, b |-> 50] >>]

\* gray = 0.299 * r + 0.587 * g + 0.114 * b, in thousandths
Gray(r, g, b) == 299 * r + 587 * g + 114 * b

\* gray + (channel - gray) * settings.colorSaturation, in ten-thousandths
Saturate(gray, channel, saturation) ==
  10 * gray + (1000 * channel - gray) * saturation

\* the starry_night bands of val, val in thousandths
StarryNight(val) ==
  IF val < 50000 THEN [r |-> 10, g |-> 15, b |-> 50]
  ELSE IF val < 90000 THEN [r |-> 25, g |-> 55, b |-> 130]
  ELSE IF val < 140000 THEN [r |-> 50, g |-> 100, b |-> 190]
  ELSE IF val < 180000 THEN [r |-> 90, g |-> 160, b |-> 220]
  ELSE IF val < 220000 THEN [r |-> 230, g |-> 190, b |-> 60]
  ELSE [r |-> 250, g |-> 245, b |-> 180]

\* dr*dr + dg*dg + db*db with dr = (c.r - satR) * 0.3, dg = (c.g - satG) * 0.59,
\* db = (c.b - satB) * 0.11, times 10000; sat in whole units
Dist(c, sat) ==
  LET dr == (c.r - sat.r) * 30
      dg == (c.g - sat.g) * 59
      db == (c.b - sat.b) * 11
  IN dr * dr + dg * dg + db * db

CloserOrEqual(dist, best) == best.none \/ dist <= best.dist

\* dist < closestDist, closestDist = Infinity while best.none
Closer(dist, best) == best.none \/ dist < best.dist

\* the palette loop from index i on (i counts from 1 here)
RECURSIVE Closest(_, _, _, _)
Closest(palette, sat, i, best) ==
  IF i > Len(palette) THEN best.c
  ELSE LET dist == Dist(palette[i], sat)
       IN Closest(palette, sat, i + 1,
                  IF Closer(dist, best)
                    THEN [none |-> FALSE, dist |-> dist, c |-> palette[i]]
                    ELSE best)

BlendHalf(c, sat) == (5 * c + 5 * sat) \div 10

\* Math.floor(closest.r * blend + satR * (1 - blend)), blend = 0.7
Blend(c, sat) == (7 * c + 3 * sat) \div 10

\* resolveColor(r, g, b) under settings.colorMode = in.mode and
\* settings.colorSaturation = in.saturation; in.noise is the Math.random()
\* result the starry_night branch reads, in ten-thousandths
resolveColor(in) ==
  LET gray == Gray(in.r, in.g, in.b)
      satR == Saturate(gray, in.r, in.saturation)
      satG == Saturate(gray, in.g, in.saturation)
      satB == Saturate(gray, in.b, in.saturation)
  IN
  IF in.mode = "starry_night"
    THEN LET noise == ((in.noise - 5000) * 15) \div 10    \* (random - 0.5) * 15
             val == Max(0, Min(255000, gray + noise))
             c == StarryNight(val)
         IN [r |-> 10000 * c.r, g |-> 10000 * c.g, b |-> 10000 * c.b]
  ELSE IF in.mode = "original"
    THEN [r |-> Min(2550000, Max(0, satR)),
          g |-> Min(2550000, Max(0, satG)),
          b |-> Min(2550000, Max(0, satB))]
  ELSE
    LET palette == PALETTES[in.mode]
        sat == [r |-> satR \div 10000, g |-> satG \div 10000, b |-> satB \div 10000]
        closest == Closest(palette, sat, 1,
                           [none |-> TRUE, dist |-> 0, c |-> palette[1]])
    IN [r |-> 10000 * Blend(closest.r, sat.r),
        g |-> 10000 * Blend(closest.g, sat.g),
        b |-> 10000 * Blend(closest.b, sat.b)]

\* the bytes explored on each channel
Channels == {15 * k : k \in 0..17} \cup {50, 75, 130}
\* settings.colorSaturation, in tenths: the slider goes from 0 to 3
Saturations == {0, 5, 10, 15, 20, 25, 30}

Whole(in) ==
  LET gray == Gray(in.r, in.g, in.b)
  IN \A ch \in {in.r, in.g, in.b} :
       Saturate(gray, ch, in.saturation) % 10000 = 0

ColorInputs ==
  {in \in [r : Channels, g : Channels, b : Channels,
           mode : {"sunflowers", "self_portrait"},
           saturation : Saturations, noise : {0}] : Whole(in)}
  \cup
  [r : {0, 120, 255}, g : {0, 120, 255}, b : {0, 120, 255},
   mode : {"original"}, saturation : Saturations, noise : {0}]
  \cup
  [r : {0, 120, 255}, g : {0, 120, 255}, b : {0, 120, 255},
   mode : {"starry_night"}, saturation : {14}, noise : {0, 5000, 9999}]

InitColor ==
  /\ colorIn \in ColorInputs
  /\ colorOut = NoColor
  /\ popLen = 0

\* one call of resolveColor
ResolveColor ==
  /\ colorOut = NoColor
  /\ colorOut' = resolveColor(colorIn)
  /\ UNCHANGED <<colorIn, loopVars, popLen, particleVars, audioVars>>

NextColor == ResolveColor

StartColor == InitColor /\ IdleLoop /\ IdleParticles /\ IdleAudio

SpecColor == StartColor /\ [][NextColor]_vars

(***************************************************************************)
(* Claims about the particles (SpecParticles).                             *)
(***************************************************************************)
\* a step that is one call of updateParticles
IsStep == frames' = frames + 1

\* the slots that hold a particle before and after a step
Kept == 1..Min(Len(particles), Len(particles'))

\* C2: over every step a particle stays in the population for, either the
\* particle was respawned in the step and its age afterwards is in [0,5), or
\* its age after the step is strictly greater than before.
C2_AgeGrowsUnlessRespawned ==
  [][IsStep =>
      \A i \in Kept :
        \/ trace'[i].respawned /\ 0 <= particles'[i].age /\ particles'[i].age < 10
        \/ particles'[i].age > particles[i].age]_vars

\* C2 witness: a particle that was respawned is carried through a later step
\* in which it ages
C2_Witness ==
  /\ frames >= 3 /\ Len(particles) = 1
  /\ ~trace[1].respawned /\ trace[1].before.age = 0
  /\ particles[1].age > 0

\* the respawn conditions of the claims, on the particle at its turn
TooOld(p)       == p.age > p.life
PastMargin(p)   == \/ p.x < -50 * 100 \/ p.x > (canvas.width + 50) * 100
                   \/ p.y < -50 * 100 \/ p.y > (canvas.height + 50) * 100
\* floor(x * scaleX) is in [0,320) exactly when 0 <= x < width
CellOffGrid(p)  == \/ p.x < 0 \/ p.x >= canvas.width * 100
                   \/ p.y < 0 \/ p.y >= canvas.height * 100

\* C3: a particle that at its turn is older than its life, or more than 50
\* units outside the canvas, or mapped to a cell outside the 320 x 180 grid,
\* is respawned in that same step and emits no stroke in it.
C3_RespawnedInSameStep ==
  \A i \in DOMAIN trace :
    (TooOld(trace[i].before) \/ PastMargin(trace[i].before)
      \/ CellOffGrid(trace[i].before))
    => trace[i].respawned /\ ~trace[i].drawn /\ particles[i].age = 0

\* C3 witness: a particle that had moved past the right edge of the canvas,
\* inside the margin and within its life, was respawned
C3_Witness ==
  \E i \in DOMAIN trace :
    /\ trace[i].respawned
    /\ ~TooOld(trace[i].before) /\ ~PastMargin(trace[i].before)
    /\ trace[i].before.x >= canvas.width * 100

\* C4 (as stated): a particle whose age equals its life at the start of a
\* step is respawned in that step and not sampled, moved or drawn.
C4_BoundaryInclusive ==
  \A i \in DOMAIN trace :
    trace[i].before.age = trace[i].before.life
    => trace[i].respawned /\ ~trace[i].drawn /\ trace[i].reads = {}

\* C4 (amended): a particle whose age equals its life at the start of a step
\* and whose position is in range is not respawned in that step: it is
\* sampled and aged as in any other step, which leaves its age above its
\* life (so the next step respawns it).
C4_BoundaryExclusive ==
  \A i \in DOMAIN trace :
    (/\ trace[i].before.age = trace[i].before.life
     /\ ~PastMargin(trace[i].before) /\ ~CellOffGrid(trace[i].before))
    => /\ ~trace[i].respawned /\ trace[i].reads # {}
       /\ particles[i].age >= trace[i].before.age + 2
       /\ particles[i].age > particles[i].life

\* C4 witness: a particle took a normal step at age = life
C4_Witness ==
  \E i \in DOMAIN trace :
    trace[i].before.age = trace[i].before.life /\ ~trace[i].respawned

\* C5 (as stated): the opacity of every stroke drawn lies in
\* [0, settings.alpha].
C5_OpacityInRange ==
  \A i \in DOMAIN trace :
    trace[i].drawn =>
      /\ trace[i].opacity[1] >= 0
      /\ trace[i].opacity[1] * 100 <= trace[i].alpha * trace[i].opacity[2]

\* C11 (as stated): a particle respawned in a step has its position,
\* velocity and life replaced by those of the freshly spawned particle (each
\* velocity component in [-1,1]), its age reset, lastX/lastY set to the new
\* position, and it keeps its slot.
C11_RespawnReplacesAll ==
  \A i \in DOMAIN trace :
    trace[i].respawned =>
      /\ i \in DOMAIN particles
      /\ particles[i].x = trace[i].fresh.x /\ particles[i].y = trace[i].fresh.y
      /\ particles[i].vx = trace[i].fresh.vx /\ particles[i].vy = trace[i].fresh.vy
      /\ Abs(particles[i].vx) <= 100 /\ Abs(particles[i].vy) <= 100
      /\ particles[i].life = trace[i].fresh.life
      /\ particles[i].age = 0
      /\ particles[i].lastX = particles[i].x /\ particles[i].lastY = particles[i].y

\* the particle in slot i takes, in this step, its first step that is not a
\* respawn since it was spawned: it was pushed by the spawn loop of this
\* call, or respawned in the call before
FirstSinceSpawn(i) == i > Len(particles) \/ trace[i].respawned

\* C12 (as stated): in every step of a particle that is not a respawn, a
\* stroke is drawn and lastX/lastY move to the new position if and only if
\* the new position is more than 2 units from (lastX,lastY) or the step is
\* the particle's first since it was spawned; otherwise nothing is drawn and
\* lastX/lastY stay as they were.
C12_StrokeIffMovedOrFirst ==
  [][IsStep =>
      \A i \in DOMAIN trace' :
        ~trace'[i].respawned =>
          LET q   == particles'[i]
              b   == trace'[i].before
              ddx == q.x - b.lastX
              ddy == q.y - b.lastY
              far == ddx * ddx + ddy * ddy > 200 * 200
          IN /\ trace'[i].drawn <=> (far \/ FirstSinceSpawn(i))
             /\ trace'[i].drawn => q.lastX = q.x /\ q.lastY = q.y
             /\ ~trace'[i].drawn => q.lastX = b.lastX /\ q.lastY = b.lastY]_vars

\* the number of bytes getImageData(0, 0, SIM_WIDTH, SIM_HEIGHT).data holds
BufferSize == SIM_WIDTH * SIM_HEIGHT * 4

\* C13: every index a step reads the pixel buffer at (the three colour bytes
\* of the cell, of its right neighbour and of its down neighbour) is within
\* [0, 320 * 180 * 4 - 1], and a particle whose position maps outside the grid
\* (negative coordinates, x >= width, y >= height) reads nothing.
C13_ReadsInsideBuffer ==
  \A i \in DOMAIN trace :
    /\ \A r \in trace[i].reads : 0 <= r /\ r <= BufferSize - 1
    /\ CellOffGrid(trace[i].before) => trace[i].reads = {}

\* C13 witness: a particle respawned in the step before was sampled in the
\* last column of the grid, where the right neighbour is clamped onto the
\* cell itself
C13_Witness ==
  \E i \in DOMAIN trace :
    /\ SimX(trace[i].before, canvas.width) = SIM_WIDTH - 1
    /\ Cardinality(trace[i].reads) = 6
    /\ trace[i].before.age = 0

\* C14: a step that is not a respawn adds exactly 2 to the particle's age
\* when the brightness sampled, on the 0-100 scale, is below
\* settings.brightnessThreshold and exactly 1 otherwise; a respawn step
\* applies neither increment (the age is the reset one).  Ages are in halves.
C14_AgeIncrement ==
  [][IsStep =>
      \A i \in DOMAIN trace' :
        LET t == trace'[i]
        IN IF t.respawned THEN particles'[i].age = 0
           ELSE IF t.sum * 100 < cfg.brightnessThreshold * 765
             THEN particles'[i].age = t.before.age + 4
             ELSE particles'[i].age = t.before.age + 2]_vars

\* C14 witness: a particle sampled a pixel under the threshold and aged by 2
\* in a step after its first one
C14_Witness ==
  \E i \in DOMAIN trace :
    /\ frames >= 2 /\ ~trace[i].respawned
    /\ trace[i].sum * 100 < cfg.brightnessThreshold * 765
    /\ particles[i].age = trace[i].before.age + 4

\* B = max(5, strokeLength) for the settings in force
FloorOfFive(c) == IF c.strokeLength > 5 THEN c.strokeLength ELSE 5

\* C15: every particle has life > 0; a particle spawned or respawned in a
\* step gets a life in [0.8 B, 1.3 B] for B = max(5, strokeLength) of the
\* settings of that step, also for a strokeLength of 0 or less, and no other
\* step changes a particle's life.  Lives are in halves.
C15_LifeInRange ==
  [][\A i \in DOMAIN particles' :
       LET life == particles'[i].life
           B    == FloorOfFive(cfg)
       IN /\ life > 0
          /\ IF IsStep /\ (i > Len(particles) \/ trace'[i].respawned)
               THEN 16 * B <= 10 * life /\ 10 * life <= 26 * B
               ELSE life = particles[i].life]_vars

\* C15 witness: a particle spawned under a strokeLength below 5 was
\* respawned under a strokeLength above 5 and has a life drawn for the latter
C15_Witness ==
  \E i \in DOMAIN trace :
    /\ trace[i].respawned /\ cfg.strokeLength > 5
    /\ 10 * trace[i].before.life <= 26 * 5
    /\ 16 * cfg.strokeLength <= 10 * particles[i].life

(***************************************************************************)
(* Claims about the audio analysis (SpecAudio).                            *)
(***************************************************************************)
\* the sum of the bins lo <= i < hi of data
RECURSIVE BinSum(_, _, _)
BinSum(data, lo, hi) ==
  IF hi <= lo THEN 0
  ELSE IF hi = lo + 1 THEN data[lo + 1]
  ELSE BinSum(data, lo, (lo + hi) \div 2) + BinSum(data, (lo + hi) \div 2, hi)

\* floor(n * pct / 100), stated as the largest k with 100 k <= n * pct
FloorPct(n, pct) == CHOOSE k \in 0..n : 100 * k <= n * pct /\ n * pct < 100 * (k + 1)

\* C6: for the spectrum of N bins a getAnalysis call read, the bands are
\* bass = [0, floor(0.05 N)), mid = [floor(0.05 N), floor(0.25 N)) and
\* treble = [floor(0.25 N), N): they follow one another from 0 to N with no
\* overlap and no gap, each band value is the sum of its own bins over their
\* number, and average is the sum of all N bins over N.
C6_BandsPartition ==
  analysis.spectrum # << >> =>
    LET data == analysis.spectrum
        N == Len(data)
        b == FloorPct(N, 5)
        m == FloorPct(N, 25)
    IN /\ 0 <= b /\ b <= m /\ m <= N
       /\ analysis.bass    = <<BinSum(data, 0, b), b>>
       /\ analysis.mid     = <<BinSum(data, b, m), m - b>>
       /\ analysis.treble  = <<BinSum(data, m, N), N - m>>
       /\ analysis.average = <<BinSum(data, 0, N), N>>
       /\ ~analysis.error

\* C6 witness: an analysis of a spectrum whose peak is the last bin of the
\* mid band, over a floor that reaches every band
C6_Witness ==
  /\ analysis.spectrum # << >>
  /\ analysis.spectrum[128] = 255 /\ analysis.spectrum[1] = 7
  /\ analysis.mid[1] = 255 + 7 * (analysis.mid[2] - 1)
  /\ analysis.treble[1] = 7 * analysis.treble[2]

\* no setup call has created the context, analyser and data array yet
NothingLoaded == audio.contexts = << >>

\* C7: a getAnalysis call made before any audio is loaded (no setup call yet,
\* or none that got to create the analyser and the data array) returns
\* {bass: 0, mid: 0, treble: 0, average: 0} without an error and leaves the
\* handler as it was.  (getAnalysis is the one operation that leaves the
\* setup calls where they are.)
C7_ZeroBeforeLoad ==
  [][(NothingLoaded /\ calls' = calls) =>
       /\ analysis' = [called |-> TRUE, error |-> FALSE, spectrum |-> << >>,
                       bass |-> <<0, 1>>, mid |-> <<0, 1>>, treble |-> <<0, 1>>,
                       average |-> <<0, 1>>]
       /\ audio' = audio]_vars

\* C7 witness: getAnalysis has answered although the only setup call so far
\* failed before it created anything
C7_Witness ==
  /\ analysis.called /\ NothingLoaded
  /\ \E c \in DOMAIN calls : calls[c].pc = "failed"

(***************************************************************************)
(* Claims about colour resolution (SpecColor).                             *)
(***************************************************************************)
\* the saturated input of the call, in whole units
SatIn ==
  LET gray == 299 * colorIn.r + 587 * colorIn.g + 114 * colorIn.b
      s == colorIn.saturation
  IN [r |-> (10 * gray + (1000 * colorIn.r - gray) * s) \div 10000,
      g |-> (10 * gray + (1000 * colorIn.g - gray) * s) \div 10000,
      b |-> (10 * gray + (1000 * colorIn.b - gray) * s) \div 10000]

\* (0.3 dR)^2 + (0.59 dG)^2 + (0.11 dB)^2 against the saturated input, times 10000
Weighted(c) ==
  9 * (c.r - SatIn.r) * (c.r - SatIn.r) * 100
  + 3481 * (c.g - SatIn.g) * (c.g - SatIn.g)
  + 121 * (c.b - SatIn.b) * (c.b - SatIn.b)

\* floor(0.7 c + 0.3 sat): the largest whole number k with 10 k <= 7 c + 3 sat
\* (it lies between c and sat)
FloorBlend(c, sat) ==
  CHOOSE k \in (Min(c, sat) - 1)..Max(c, sat) :
    10 * k <= 7 * c + 3 * sat /\ 7 * c + 3 * sat < 10 * (k + 1)

\* C8: in the modes sunflowers and self_portrait, resolveColor returns per
\* channel floor(0.7 c + 0.3 sat) for the palette entry c of least weighted
\* distance to the saturated input, the lowest index among equals; no other
\* entry is strictly closer.
C8_NearestPaletteBlend ==
  (colorOut # NoColor /\ colorIn.mode \in {"sunflowers", "self_portrait"}) =>
    LET palette == PALETTES[colorIn.mode]
    IN \E k \in DOMAIN palette :
         /\ \A j \in DOMAIN palette : Weighted(palette[k]) <= Weighted(palette[j])
         /\ \A j \in 1..(k - 1) : Weighted(palette[j]) > Weighted(palette[k])
         /\ colorOut.r = 10000 * FloorBlend(palette[k].r, SatIn.r)
         /\ colorOut.g = 10000 * FloorBlend(palette[k].g, SatIn.g)
         /\ colorOut.b = 10000 * FloorBlend(palette[k].b, SatIn.b)

\* C8 witness: a resolved self_portrait colour for an input two palette
\* entries are equally close to
C8_Witness ==
  /\ colorOut # NoColor /\ colorIn.mode = "self_portrait"
  /\ \E j, k \in DOMAIN PALETTES.self_portrait :
       /\ j < k
       /\ Weighted(PALETTES.self_portrait[j]) = Weighted(PALETTES.self_portrait[k])
       /\ \A i \in DOMAIN PALETTES.self_portrait :
            Weighted(PALETTES.self_portrait[j]) <= Weighted(PALETTES.self_portrait[i])

\* C17 (as stated): in every colour mode, for r, g, b in [0,255] and a
\* saturation in [0,3], each channel resolveColor returns lies in [0,255].
\* Returned channels are in ten-thousandths.
C17_ChannelsInRange ==
  colorOut # NoColor =>
    \A ch \in {colorOut.r, colorOut.g, colorOut.b} : 0 <= ch /\ ch <= 255 * 10000

\* every setup call made so far has finished (returned or thrown)
AllFinished ==
  \A c \in DOMAIN calls : calls[c].pc \in {"idle", "done", "failed"}

\* C18 (as stated): once every setup call has finished, whatever their
\* interleaving at the two awaits, the only AudioContext the handler
\* created that is not closed is the one it references, and every Audio
\* element but the current one has been paused.
C18_NoContextLeft ==
  AllFinished =>
    /\ \A k \in DOMAIN audio.contexts :
         audio.contexts[k] # "closed" => k = audio.audioContext
    /\ \A e \in DOMAIN audio.elements :
         e # audio.audioElement => audio.elements[e] = "paused"

====
